---- MODULE Spec2Model ----
(***************************************************************************)
(* State machine of the App component (src/src/types.ts): the form, the    *)
(* rule-based and AI recommendation requests, and the map picker with its  *)
(* reverse-geocode effect and delayed automatic recommendation request.    *)
(*                                                                         *)
(* Each action is one task of the browser's event loop: an event handler   *)
(* or a promise reaction, run to completion with the state updates it      *)
(* makes.  Responses are chosen by the environment; requests settle in any *)
(* order.  The component re-renders between tasks, so handlers created by  *)
(* the render read the current state, while the geocode effect, which runs *)
(* only when selectedPosition changes, keeps the form of its own render.   *)
(*                                                                         *)
(* Nullable values (string | null, T | null) are sequences of length at    *)
(* most one: Null is <<>>, Some(x) is <<x>>.                               *)
(***************************************************************************)
EXTENDS Integers, Sequences, FiniteSets, TLC

\* ---------------------------------------------------------------- bounds
\* user actions in one run: field edits, submits, AI clicks and map clicks
MaxActions == 3

\* ------------------------------------------------------ values and inputs
Null == <<>>
Some(x) == <<x>>

initialForm ==
  [city |-> "", country |-> "", sun_exposure |-> "full_sun",
   soil_type |-> "well_drained", watering_preference |-> "medium",
   maintenance_preference |-> "low", wind_exposure |-> "exposed"]

FormKeys == DOMAIN initialForm

RuleErrorMessage == "Oneriler alinirken bir hata olustu."
AIErrorMessage == "AI onerisi alinamadi. Lutfen tekrar deneyin."
LocationEmptyMessage == "Could not detect city from this point, please type it manually."
LocationUnreachableMessage == "Could not reach location service. Please type city manually."

\* map points a click can select
Points == {<<38, 27>>, <<39, 35>>}

\* what the user can type or pick in a form control: <<name, value>>
Edits ==
  {<<"city", "">>, <<"city", "Bursa">>, <<"country", "Turkiye">>,
   <<"sun_exposure", "shade">>}

\* address objects of a reverse-geocode response body
Address(state, city, province, region, country) ==
  [state |-> state, city |-> city, province |-> province, region |-> region,
   country |-> country]

Addresses ==
  {Address("", "", "", "", ""), Address("", "", "", "", "Turkey"),
   Address("Izmir", "", "", "", ""), Address("", "Izmir", "", "Aegean", "Turkey"),
   Address("Izmir", "Konak", "", "Aegean", "Turkey")}

\* a plant of the service's dataset; scores and summaries are display-only
Plant(i) ==
  [plant_id |-> i,
   name_tr |-> <<"Lavanta", "Biberiye", "Zeytin">>[i],
   name_latin |-> <<"Lavandula", "Rosmarinus", "Olea">>[i]]

\* result lists the scoring service can return
ResultLists == {<<Plant(1)>>, <<Plant(2)>>}

AIChosenPlant(i) == [plant_id |-> i, reasoning |-> "r", source |-> "ai"]

\* bodies the AI endpoint can return
AIResponse(list, best) == [rule_based_results |-> list, ai_best |-> best]

AIResponses ==
  {AIResponse(<<Plant(1)>>, Null),
   AIResponse(<<Plant(2), Plant(1)>>, Some(AIChosenPlant(1))),
   AIResponse(<<Plant(1)>>, Some(AIChosenPlant(3)))}

\* ------------------------------------------------------------------ state
VARIABLES
  form, loading, error, results, selectedPosition, locationLoading,
  locationError, aiLoading, aiError, aiResult,
  geo,      \* geocode requests, one per run of the effect, in click order:
            \* the form the run closed over, the request's status, how it
            \* settled, and the automatic requests its callback has sent
  timers,   \* pending setTimeout callbacks, in scheduling order
  rule,     \* rule-based recommendation requests in flight
  ai,       \* AI recommendation requests in flight
  nRule, nAI,   \* requests issued so far
  nActions,     \* user actions so far: edits, submits, AI clicks, map clicks
  lastRule,     \* how the rule-based request that settled last ended
  ev        \* the handler that ran last: its name, the id and origin of its
            \* request, and the response body it was given

view == <<form, loading, error, results, selectedPosition, locationLoading,
          locationError, aiLoading, aiError, aiResult>>
net == <<geo, timers, rule, ai>>
vars == <<view, net, nRule, nAI, nActions, lastRule, ev>>

Event(op, id, origin, data) ==
  [op |-> op, id |-> id, origin |-> origin, data |-> data]

\* a || b on strings: the first operand unless it is empty
Or(a, b) == IF a # "" THEN a ELSE b

\* JSON.stringify(payload) of a flat object of strings and numbers, read back
\* by the server: the object's own keys with their values
JsonBody(payload) == [k \in DOMAIN payload |-> payload[k]]

\* the promise reactions of an aborted fetch run before any later task
MicrotasksDrained == \A g \in DOMAIN geo : geo[g].status # "aborted"

Init ==
  /\ form = initialForm
  /\ loading = FALSE
  /\ error = Null
  /\ results = <<>>
  /\ selectedPosition = Null
  /\ locationLoading = FALSE
  /\ locationError = Null
  /\ aiLoading = FALSE
  /\ aiError = Null
  /\ aiResult = Null
  /\ geo = <<>>
  /\ timers = <<>>
  /\ rule = {}
  /\ ai = {}
  /\ nRule = 0
  /\ nAI = 0
  /\ nActions = 0
  /\ lastRule = "none"
  /\ ev = Event("init", 0, "", Null)

\* ---------------------------------------------------------------- actions

\* a handleChange that rebuilds the form from its initial values
handleChange_resets(name, value) ==
  /\ MicrotasksDrained
  /\ nActions < MaxActions
  /\ form' = [initialForm EXCEPT ![name] = value]
  /\ nActions' = nActions + 1
  /\ ev' = Event("handleChange", 0, "", Some(<<name, value>>))
  /\ UNCHANGED lastRule
  /\ UNCHANGED <<loading, error, results, selectedPosition, locationLoading,
                 locationError, aiLoading, aiError, aiResult, net, nRule, nAI>>

\* handleChange: one form control edited
handleChange(name, value) ==
  /\ MicrotasksDrained
  /\ nActions < MaxActions
  /\ form' = [form EXCEPT ![name] = value]
  /\ nActions' = nActions + 1
  /\ ev' = Event("handleChange", 0, "", Some(<<name, value>>))
  /\ UNCHANGED lastRule
  /\ UNCHANGED <<loading, error, results, selectedPosition, locationLoading,
                 locationError, aiLoading, aiError, aiResult, net, nRule, nAI>>

\* fetchRecommendations: the request put in flight for a payload
fetchRecommendations(id, origin, payload) ==
  [id |-> id, origin |-> origin, body |-> JsonBody(payload)]

\* the submit button is enabled and the required inputs are filled in
CanSubmit == ~loading /\ form.city # "" /\ form.country # ""

\* a handleSubmit that leaves the stored AI result in place
handleSubmit_keepsAiResult ==
  /\ MicrotasksDrained
  /\ CanSubmit
  /\ nActions < MaxActions
  /\ loading' = TRUE
  /\ error' = Null
  /\ rule' = rule \cup {fetchRecommendations(nRule + 1, "submit", form)}
  /\ nRule' = nRule + 1
  /\ ev' = Event("handleSubmit", nRule + 1, "submit", Null)
  /\ UNCHANGED lastRule
  /\ nActions' = nActions + 1
  /\ UNCHANGED <<form, results, selectedPosition, locationLoading,
                 locationError, aiLoading, aiError, aiResult, geo, timers, ai,
                 nAI>>

\* a handleSubmit that sends the form's initial values
handleSubmit_initialForm ==
  /\ MicrotasksDrained
  /\ CanSubmit
  /\ nActions < MaxActions
  /\ loading' = TRUE
  /\ error' = Null
  /\ aiResult' = Null
  /\ rule' = rule \cup {fetchRecommendations(nRule + 1, "submit", initialForm)}
  /\ nRule' = nRule + 1
  /\ ev' = Event("handleSubmit", nRule + 1, "submit", Null)
  /\ UNCHANGED lastRule
  /\ nActions' = nActions + 1
  /\ UNCHANGED <<form, results, selectedPosition, locationLoading,
                 locationError, aiLoading, aiError, geo, timers, ai, nAI>>

\* handleSubmit up to its await
handleSubmit ==
  /\ MicrotasksDrained
  /\ CanSubmit
  /\ nActions < MaxActions
  /\ loading' = TRUE
  /\ error' = Null
  /\ aiResult' = Null
  /\ rule' = rule \cup {fetchRecommendations(nRule + 1, "submit", form)}
  /\ nRule' = nRule + 1
  /\ ev' = Event("handleSubmit", nRule + 1, "submit", Null)
  /\ UNCHANGED lastRule
  /\ nActions' = nActions + 1
  /\ UNCHANGED <<form, results, selectedPosition, locationLoading,
                 locationError, aiLoading, aiError, geo, timers, ai, nAI>>

\* a RuleSuccess that drops the response of any request but the newest
RuleSuccess_newestOnly(r, data) ==
  /\ MicrotasksDrained
  /\ r \in rule
  /\ results' = IF r.id = nRule THEN data ELSE results
  /\ loading' = FALSE
  /\ rule' = rule \ {r}
  /\ ev' = Event("RuleSuccess", r.id, r.origin, Some(data))
  /\ lastRule' = "ok"
  /\ UNCHANGED <<form, error, selectedPosition, locationLoading,
                 locationError, aiLoading, aiError, aiResult, geo, timers,
                 ai, nRule, nAI, nActions>>

\* a rule-based request resolves with a 2xx body: setResults, then finally
RuleSuccess(r, data) ==
  /\ MicrotasksDrained
  /\ r \in rule
  /\ results' = data
  /\ loading' = FALSE
  /\ rule' = rule \ {r}
  /\ ev' = Event("RuleSuccess", r.id, r.origin, Some(data))
  /\ lastRule' = "ok"
  /\ UNCHANGED <<form, error, selectedPosition, locationLoading,
                 locationError, aiLoading, aiError, aiResult, geo, timers,
                 ai, nRule, nAI, nActions>>

\* a RuleFailure that also empties the result list
RuleFailure_clearsResults(r) ==
  /\ MicrotasksDrained
  /\ r \in rule
  /\ error' = Some(RuleErrorMessage)
  /\ results' = <<>>
  /\ loading' = FALSE
  /\ rule' = rule \ {r}
  /\ ev' = Event("RuleFailure", r.id, r.origin, Null)
  /\ lastRule' = "failed"
  /\ UNCHANGED <<form, selectedPosition, locationLoading, locationError,
                 aiLoading, aiError, aiResult, geo, timers, ai, nRule, nAI,
                 nActions>>

\* a RuleFailure whose loading reset sits on the success path only
RuleFailure_noFinally(r) ==
  /\ MicrotasksDrained
  /\ r \in rule
  /\ error' = Some(RuleErrorMessage)
  /\ rule' = rule \ {r}
  /\ ev' = Event("RuleFailure", r.id, r.origin, Null)
  /\ lastRule' = "failed"
  /\ UNCHANGED <<form, results, loading, selectedPosition, locationLoading,
                 locationError, aiLoading, aiError, aiResult, geo, timers,
                 ai, nRule, nAI, nActions>>

\* a rule-based request rejects (non-2xx or network error): catch, then finally
RuleFailure(r) ==
  /\ MicrotasksDrained
  /\ r \in rule
  /\ error' = Some(RuleErrorMessage)
  /\ loading' = FALSE
  /\ rule' = rule \ {r}
  /\ ev' = Event("RuleFailure", r.id, r.origin, Null)
  /\ lastRule' = "failed"
  /\ UNCHANGED <<form, results, selectedPosition, locationLoading,
                 locationError, aiLoading, aiError, aiResult, geo, timers,
                 ai, nRule, nAI, nActions>>

\* a payload that asks for English
aiPayload_english(f) ==
  [k \in FormKeys \cup {"top_n", "language"} |->
     IF k = "top_n" THEN 5 ELSE IF k = "language" THEN "en" ELSE f[k]]

\* the payload handleAIRecommendation builds from the form
aiPayload(f) ==
  [k \in FormKeys \cup {"top_n", "language"} |->
     IF k = "top_n" THEN 5 ELSE IF k = "language" THEN "tr" ELSE f[k]]

\* an AI button that stays enabled while a request is in flight
CanAskAI_whileLoading == form.city # "" /\ form.country # ""

\* the AI button is enabled
CanAskAI == ~aiLoading /\ form.city # "" /\ form.country # ""

\* handleAIRecommendation up to its await
handleAIRecommendation ==
  /\ MicrotasksDrained
  /\ CanAskAI
  /\ nActions < MaxActions
  /\ aiLoading' = TRUE
  /\ aiError' = Null
  /\ ai' = ai \cup {[id |-> nAI + 1, body |-> JsonBody(aiPayload(form))]}
  /\ nAI' = nAI + 1
  /\ ev' = Event("handleAIRecommendation", nAI + 1, "", Null)
  /\ UNCHANGED lastRule
  /\ nActions' = nActions + 1
  /\ UNCHANGED <<form, loading, error, results, selectedPosition,
                 locationLoading, locationError, aiResult, geo, timers, rule,
                 nRule>>

\* an AISuccess that stores the response but leaves the displayed list
AISuccess_keepsResults(r, data) ==
  /\ MicrotasksDrained
  /\ r \in ai
  /\ aiResult' = Some(data)
  /\ aiLoading' = FALSE
  /\ ai' = ai \ {r}
  /\ ev' = Event("AISuccess", r.id, "", Some(data))
  /\ UNCHANGED lastRule
  /\ UNCHANGED <<form, loading, error, results, selectedPosition,
                 locationLoading, locationError, aiError, geo, timers, rule,
                 nRule, nAI, nActions>>

\* the AI request resolves with a 2xx body: setAiResult, setResults, finally
AISuccess(r, data) ==
  /\ MicrotasksDrained
  /\ r \in ai
  /\ aiResult' = Some(data)
  /\ results' = data.rule_based_results
  /\ aiLoading' = FALSE
  /\ ai' = ai \ {r}
  /\ ev' = Event("AISuccess", r.id, "", Some(data))
  /\ UNCHANGED lastRule
  /\ UNCHANGED <<form, loading, error, selectedPosition, locationLoading,
                 locationError, aiError, geo, timers, rule, nRule, nAI,
                 nActions>>

\* an AIFailure that also discards the stored AI result
AIFailure_clearsAiResult(r) ==
  /\ MicrotasksDrained
  /\ r \in ai
  /\ aiError' = Some(AIErrorMessage)
  /\ aiResult' = Null
  /\ aiLoading' = FALSE
  /\ ai' = ai \ {r}
  /\ ev' = Event("AIFailure", r.id, "", Null)
  /\ UNCHANGED lastRule
  /\ UNCHANGED <<form, loading, error, results, selectedPosition,
                 locationLoading, locationError, geo, timers, rule, nRule,
                 nAI, nActions>>

\* the AI request rejects (non-2xx or network error): catch, then finally
AIFailure(r) ==
  /\ MicrotasksDrained
  /\ r \in ai
  /\ aiError' = Some(AIErrorMessage)
  /\ aiLoading' = FALSE
  /\ ai' = ai \ {r}
  /\ ev' = Event("AIFailure", r.id, "", Null)
  /\ UNCHANGED lastRule
  /\ UNCHANGED <<form, loading, error, results, selectedPosition,
                 locationLoading, locationError, aiResult, geo, timers, rule,
                 nRule, nAI, nActions>>

\* a cleanup that aborts nothing
Cleanup_noAbort(g) == g

\* the effect's cleanup: controller.abort() on the previous run's request
Cleanup(g) ==
  [i \in DOMAIN g |->
     IF g[i].status = "pending" THEN [g[i] EXCEPT !.status = "aborted"]
     ELSE g[i]]

\* the request one run of the effect starts
GeocodeRequest(f) ==
  [form |-> f, status |-> "pending", outcome |-> "", autos |-> 0]

\* a Click whose cleanup also clears the pending timers
Click_clearsTimers(p) ==
  /\ MicrotasksDrained
  /\ nActions < MaxActions
  /\ selectedPosition' = Some(p)
  /\ locationLoading' = TRUE
  /\ locationError' = Null
  /\ geo' = Append(Cleanup(geo), GeocodeRequest(form))
  /\ timers' = <<>>
  /\ ev' = Event("Click", Len(geo) + 1, "", Null)
  /\ UNCHANGED lastRule
  /\ nActions' = nActions + 1
  /\ UNCHANGED <<form, loading, error, results, aiLoading, aiError, aiResult,
                 rule, ai, nRule, nAI>>

\* a map click: setSelectedPosition, then the effect's cleanup and next run
Click(p) ==
  /\ MicrotasksDrained
  /\ nActions < MaxActions
  /\ selectedPosition' = Some(p)
  /\ locationLoading' = TRUE
  /\ locationError' = Null
  /\ geo' = Append(Cleanup(geo), GeocodeRequest(form))
  /\ ev' = Event("Click", Len(geo) + 1, "", Null)
  /\ UNCHANGED lastRule
  /\ nActions' = nActions + 1
  /\ UNCHANGED <<form, loading, error, results, aiLoading, aiError, aiResult,
                 timers, rule, ai, nRule, nAI>>

\* a GeocodeAborted whose catch does not tell an abort from a failure
GeocodeAborted_reportsError(g) ==
  /\ g \in DOMAIN geo
  /\ geo[g].status = "aborted"
  /\ locationError' = Some(LocationUnreachableMessage)
  /\ locationLoading' = FALSE
  /\ geo' = [geo EXCEPT ![g].status = "cancelled"]
  /\ ev' = Event("GeocodeAborted", g, "", Null)
  /\ UNCHANGED lastRule
  /\ UNCHANGED <<form, loading, error, results, selectedPosition, aiLoading,
                 aiError, aiResult, timers, rule, ai, nRule, nAI, nActions>>

\* an aborted geocode fetch rejects with AbortError: catch returns, then finally
GeocodeAborted(g) ==
  /\ g \in DOMAIN geo
  /\ geo[g].status = "aborted"
  /\ locationLoading' = FALSE
  /\ geo' = [geo EXCEPT ![g].status = "cancelled"]
  /\ ev' = Event("GeocodeAborted", g, "", Null)
  /\ UNCHANGED lastRule
  /\ UNCHANGED <<form, loading, error, results, selectedPosition,
                 locationError, aiLoading, aiError, aiResult, timers, rule,
                 ai, nRule, nAI, nActions>>

\* the place name taken from a geocode address
Province(address) ==
  Or(address.state, Or(address.city, Or(address.province, Or(address.region, ""))))

\* the country taken from a geocode address
Country(address) == Or(address.country, "")

\* a merge that overwrites both fields whatever the result holds
MergeLocation_overwrite(prev, province, country) ==
  [prev EXCEPT !.city = province, !.country = country]

\* the form after a geocode result is merged into it
MergeLocation(prev, province, country) ==
  [prev EXCEPT !.city = Or(province, prev.city),
               !.country = Or(country, prev.country)]

\* a GeocodeResponse whose empty-address branch does not return
GeocodeResponse_noReturn(g, address) ==
  /\ MicrotasksDrained
  /\ g \in DOMAIN geo
  /\ geo[g].status = "pending"
  /\ LET province == Province(address)
         country == Country(address)
     IN /\ locationError' = IF province = "" /\ country = ""
                            THEN Some(LocationEmptyMessage) ELSE locationError
        /\ form' = MergeLocation(form, province, country)
        /\ timers' = Append(timers, [geo |-> g, province |-> province,
                                     country |-> country,
                                     form |-> geo[g].form])
        /\ geo' = [geo EXCEPT ![g].status = "settled",
                              ![g].outcome = IF province = "" /\ country = ""
                                             THEN "empty" ELSE "applied"]
  /\ locationLoading' = FALSE
  /\ ev' = Event("GeocodeResponse", g, "", Some(address))
  /\ UNCHANGED lastRule
  /\ UNCHANGED <<loading, error, results, selectedPosition, aiLoading,
                 aiError, aiResult, rule, ai, nRule, nAI, nActions>>

\* the geocode request of run g resolves with a JSON body
GeocodeResponse(g, address) ==
  /\ MicrotasksDrained
  /\ g \in DOMAIN geo
  /\ geo[g].status = "pending"
  /\ LET province == Province(address)
         country == Country(address)
     IN IF province = "" /\ country = ""
        THEN /\ locationError' = Some(LocationEmptyMessage)
             /\ geo' = [geo EXCEPT ![g].status = "settled", ![g].outcome = "empty"]
             /\ UNCHANGED <<form, timers>>
        ELSE /\ form' = MergeLocation(form, province, country)
             /\ timers' = Append(timers, [geo |-> g, province |-> province,
                                          country |-> country,
                                          form |-> geo[g].form])
             /\ geo' = [geo EXCEPT ![g].status = "settled", ![g].outcome = "applied"]
             /\ UNCHANGED locationError
  /\ locationLoading' = FALSE
  /\ ev' = Event("GeocodeResponse", g, "", Some(address))
  /\ UNCHANGED lastRule
  /\ UNCHANGED <<loading, error, results, selectedPosition, aiLoading,
                 aiError, aiResult, rule, ai, nRule, nAI, nActions>>

\* a GeocodeError that reuses the empty-address message
GeocodeError_emptyMessage(g) ==
  /\ MicrotasksDrained
  /\ g \in DOMAIN geo
  /\ geo[g].status = "pending"
  /\ locationError' = Some(LocationEmptyMessage)
  /\ locationLoading' = FALSE
  /\ geo' = [geo EXCEPT ![g].status = "settled", ![g].outcome = "error"]
  /\ ev' = Event("GeocodeError", g, "", Null)
  /\ UNCHANGED lastRule
  /\ UNCHANGED <<form, loading, error, results, selectedPosition, aiLoading,
                 aiError, aiResult, timers, rule, ai, nRule, nAI, nActions>>

\* the geocode request of run g rejects for a reason other than an abort
GeocodeError(g) ==
  /\ MicrotasksDrained
  /\ g \in DOMAIN geo
  /\ geo[g].status = "pending"
  /\ locationError' = Some(LocationUnreachableMessage)
  /\ locationLoading' = FALSE
  /\ geo' = [geo EXCEPT ![g].status = "settled", ![g].outcome = "error"]
  /\ ev' = Event("GeocodeError", g, "", Null)
  /\ UNCHANGED lastRule
  /\ UNCHANGED <<form, loading, error, results, selectedPosition, aiLoading,
                 aiError, aiResult, timers, rule, ai, nRule, nAI, nActions>>

\* the form the delayed callback sends: built from the form its effect closed over
updatedForm(t) == MergeLocation(t.form, t.province, t.country)

\* the setTimeout callback of the oldest resolved geocode runs
AutoFetch ==
  /\ MicrotasksDrained
  /\ timers # <<>>
  /\ loading' = TRUE
  /\ error' = Null
  /\ aiResult' = Null
  /\ rule' = rule \cup {fetchRecommendations(nRule + 1, "auto", updatedForm(Head(timers)))}
  /\ nRule' = nRule + 1
  /\ timers' = Tail(timers)
  /\ geo' = [geo EXCEPT ![Head(timers).geo].autos = @ + 1]
  /\ ev' = Event("AutoFetch", nRule + 1, "auto", Null)
  /\ UNCHANGED lastRule
  /\ UNCHANGED <<form, results, selectedPosition, locationLoading,
                 locationError, aiLoading, aiError, ai, nAI, nActions>>

\* ------------------------------------------------------------- rendering

\* the AI panel is rendered
AIPanelShown == aiResult # Null /\ aiResult[1].ai_best # Null

\* list.find(p => p.plant_id === id): the first match, if any
Find(list, id) ==
  LET hits == {i \in DOMAIN list : list[i].plant_id = id}
  IN IF hits = {} THEN Null
     ELSE Some(list[CHOOSE i \in hits : \A j \in hits : i <= j])

UnknownPlantLabel == <<"Bilinmeyen bitki">>

\* the template literal `${chosen.name_tr} (${chosen.name_latin})`
PlantLabel(p) == <<p.name_tr, " (", p.name_latin, ")">>

\* a label that looks the pick up in the AI response's own list
AIBestLabel_ownList ==
  LET chosen == Find(aiResult[1].rule_based_results, aiResult[1].ai_best[1].plant_id)
  IN IF chosen # Null THEN PlantLabel(chosen[1]) ELSE UnknownPlantLabel

\* the label of the AI best pick, looked up in the displayed results
AIBestLabel ==
  LET chosen == Find(results, aiResult[1].ai_best[1].plant_id)
  IN IF chosen # Null THEN PlantLabel(chosen[1]) ELSE UnknownPlantLabel

Next ==
  \/ \E e \in Edits : handleChange(e[1], e[2])
  \/ handleSubmit
  \/ \E r \in rule, data \in ResultLists : RuleSuccess(r, data)
  \/ \E r \in rule : RuleFailure(r)
  \/ handleAIRecommendation
  \/ \E r \in ai, data \in AIResponses : AISuccess(r, data)
  \/ \E r \in ai : AIFailure(r)
  \/ \E p \in Points : Click(p)
  \/ \E g \in DOMAIN geo : GeocodeAborted(g)
  \/ \E g \in DOMAIN geo, address \in Addresses : GeocodeResponse(g, address)
  \/ \E g \in DOMAIN geo : GeocodeError(g)
  \/ AutoFetch

Spec == Init /\ [][Next]_vars

\* a pending promise reaction runs, a pending 100 ms timer fires
FairSpec ==
  /\ Spec
  /\ WF_vars(\E g \in DOMAIN geo : GeocodeAborted(g))
  /\ WF_vars(AutoFetch)

\* every outstanding request settles, every pending promise reaction runs and
\* every pending timer fires; the user may stop acting at any point
LiveSpec ==
  /\ Spec
  /\ WF_vars(\E r \in rule :
               \/ \E data \in ResultLists : RuleSuccess(r, data)
               \/ RuleFailure(r))
  /\ WF_vars(\E r \in ai :
               \/ \E data \in AIResponses : AISuccess(r, data)
               \/ AIFailure(r))
  /\ WF_vars(\E g \in DOMAIN geo :
               \/ \E address \in Addresses : GeocodeResponse(g, address)
               \/ GeocodeError(g))
  /\ WF_vars(\E g \in DOMAIN geo : GeocodeAborted(g))
  /\ WF_vars(AutoFetch)

\* ----------------------------------------------------------------- claims

GeocodeOps == {"GeocodeResponse", "GeocodeError", "GeocodeAborted"}

\* C1: once a later point has been selected, the settling of an earlier
\* point's geocode request changes neither the form's city or country nor the
\* location error, and schedules no automatic request; a geocode result is
\* applied only for the point selected last.
C1_StaleGeocodeIgnored ==
  [][(ev'.op \in GeocodeOps /\ ev'.id < Len(geo'))
       => /\ form'.city = form.city
          /\ form'.country = form.country
          /\ locationError' = locationError
          /\ timers' = timers]_vars

\* point A's request was cancelled by the click on B, and B's result is applied
C1_Witness ==
  /\ Len(geo) = 2
  /\ geo[1].status = "cancelled"
  /\ geo[2].status = "settled"
  /\ ev.op = "GeocodeResponse" /\ ev.id = 2
  /\ form.city = "Izmir"

Live == {g \in DOMAIN geo : geo[g].status = "pending"}

\* C2: at most one geocode request is live (issued, neither settled nor
\* cancelled) in every reachable state.
C2_AtMostOneLiveGeocode == Cardinality(Live) <= 1

\* the second click found the first request outstanding and cancelled it
C2_Witness ==
  /\ Len(geo) = 2
  /\ geo[1].status = "aborted"
  /\ geo[2].status = "pending"

\* the request a step puts in flight
Issued == rule' \ rule
IssuedAI == ai' \ ai

\* C3: the automatic request dispatched after a geocode carries the city and
\* country the form holds at the moment of dispatch.
C3_AutoBodyMatchesForm ==
  [][ev'.op = "AutoFetch"
       => \A r \in Issued : r.body.city = form.city /\ r.body.country = form.country]_vars

\* C4: issuing a rule-based request, by submit or by the automatic fetch,
\* clears the stored AI result in the same step, and the settling of a
\* rule-based request, success or failure, does not put it back.
C4_PlainRequestClearsAiResult ==
  [][/\ ev'.op \in {"handleSubmit", "AutoFetch"} => aiResult' = Null
     /\ ev'.op \in {"RuleSuccess", "RuleFailure"} => aiResult' = aiResult]_vars

\* an AI response was stored, a submit cleared it, and the submit then failed
C4_Witness ==
  /\ ev.op = "RuleFailure" /\ ev.origin = "submit"
  /\ nAI = 1 /\ ai = {} /\ aiError = Null
  /\ aiResult = Null
  /\ results # <<>>

\* C5: the body handleSubmit sends has exactly the seven form keys with the
\* values the form holds at the submit.
C5_SubmitSendsForm ==
  [][ev'.op = "handleSubmit"
       => /\ form' = form
          /\ \E r \in Issued :
               /\ Issued = {r}
               /\ r.id = ev'.id
               /\ DOMAIN r.body = FormKeys
               /\ \A k \in FormKeys : r.body[k] = form[k]]_vars

\* a submit of a form the user and a geocode have both changed
C5_Witness ==
  /\ ev.op = "handleSubmit"
  /\ \E r \in rule :
       /\ r.id = ev.id
       /\ r.body.sun_exposure = "shade"
       /\ r.body.city = "Izmir"
       /\ r.body.country = "Turkey"

\* C6: every AI request body carries top_n = 5 and language = "tr", and its
\* seven other fields are the form's values when the request is triggered.
C6_AIPayload ==
  [][ev'.op = "handleAIRecommendation"
       => \E r \in IssuedAI :
            /\ IssuedAI = {r}
            /\ DOMAIN r.body = FormKeys \cup {"top_n", "language"}
            /\ r.body.top_n = 5
            /\ r.body.language = "tr"
            /\ \A k \in FormKeys : r.body[k] = form[k]]_vars

\* an AI request for a form that no longer has its initial values
C6_Witness ==
  /\ ev.op = "handleAIRecommendation"
  /\ \E r \in ai : r.body.sun_exposure = "shade" /\ r.body.city = "Izmir"

\* C7: an AI request is issued only when none is in flight and city and
\* country are non-empty; so at most one is in flight, and every AI request
\* body has a non-empty city and country.
C7_AIRequestGuard ==
  /\ [](/\ Cardinality(ai) <= 1
        /\ \A r \in ai : r.body.city # "" /\ r.body.country # "")
  /\ [][ev'.op = "handleAIRecommendation"
          => ai = {} /\ ~aiLoading /\ form.city # "" /\ form.country # ""]_vars

\* a second AI request, issued after the first one settled
C7_Witness ==
  /\ ev.op = "handleAIRecommendation"
  /\ nAI = 2
  /\ Cardinality(ai) = 1

\* C8: a rule-based response that settles with a result list replaces the
\* displayed list, whether or not a request issued after it has already
\* settled: of two submits in flight together, the one to settle last wins.
C8_LastSettledWins ==
  [][ev'.op = "RuleSuccess" => results' = ev'.data[1]]_vars

\* the first submit stayed in flight while the automatic request and a second
\* submit were issued and settled; it settled last and its list is displayed
C8_Witness ==
  /\ ev.op = "RuleSuccess" /\ ev.origin = "submit" /\ ev.id = 1
  /\ nRule = 3 /\ rule = {}
  /\ Len(geo) = 1
  /\ results = ev.data[1]

\* C9: a failed rule-based request sets the rule-based error message and
\* leaves the result list, the form and the AI error as they were.
C9_RuleFailureKeepsState ==
  [][ev'.op = "RuleFailure"
       => /\ error' = Some(RuleErrorMessage)
          /\ results' = results
          /\ form' = form
          /\ aiError' = aiError]_vars

\* an automatic request failed while a list and an AI error were displayed
C9_Witness ==
  /\ ev.op = "RuleFailure" /\ ev.origin = "auto"
  /\ error = Some(RuleErrorMessage)
  /\ results # <<>>
  /\ aiError # Null

\* C10: a failed AI request sets the AI error message, which differs from the
\* rule-based one, and leaves the result list, the stored AI result, the form
\* and the rule-based error as they were.
C10_AIFailureKeepsState ==
  [][ev'.op = "AIFailure"
       => /\ aiError' = Some(AIErrorMessage)
          /\ AIErrorMessage # RuleErrorMessage
          /\ results' = results
          /\ aiResult' = aiResult
          /\ form' = form
          /\ error' = error]_vars

\* an AI request failed while an earlier AI result was stored
C10_Witness ==
  /\ ev.op = "AIFailure"
  /\ aiError = Some(AIErrorMessage)
  /\ aiResult # Null
  /\ results # <<>>

\* C11: a successful AI response replaces the displayed list by its
\* rule_based_results and becomes the stored AI result, ai_best included, in
\* the same step.
C11_AISuccessStoresResponse ==
  [][ev'.op = "AISuccess"
       => /\ results' = ev'.data[1].rule_based_results
          /\ aiResult' = Some(ev'.data[1])
          /\ aiResult'[1].ai_best = ev'.data[1].ai_best]_vars

\* an AI response without a best pick settled after a rule-based request
C11_Witness ==
  /\ ev.op = "AISuccess"
  /\ aiResult # Null /\ aiResult[1].ai_best = Null
  /\ results = <<Plant(1)>>
  /\ nRule >= 1 /\ rule = {}

AddressEmpty(a) ==
  a.state = "" /\ a.city = "" /\ a.province = "" /\ a.region = "" /\ a.country = ""

\* C12: a geocode response whose state, city, province, region and country
\* are all empty sets the "type it manually" error and leaves the form, the
\* result list, the stored AI result and the pending timers as they were.
C12_EmptyAddressOnlySetsError ==
  [][(ev'.op = "GeocodeResponse" /\ AddressEmpty(ev'.data[1]))
       => /\ locationError' = Some(LocationEmptyMessage)
          /\ form' = form
          /\ results' = results
          /\ aiResult' = aiResult
          /\ timers' = timers]_vars

\* an empty address arrived for a point picked after the form was edited
C12_Witness ==
  /\ ev.op = "GeocodeResponse" /\ AddressEmpty(ev.data[1])
  /\ locationError = Some(LocationEmptyMessage)
  /\ form.city = "Bursa"
  /\ timers = <<>>

LocationKeys == {"city", "country"}

\* C13: an applied geocode response overwrites city only by a non-empty
\* place and country only by a non-empty country, each otherwise keeping the
\* form's current value, and never changes the five other fields.
C13_MergeKeepsOnEmpty ==
  [][ev'.op = "GeocodeResponse"
       => LET a == ev'.data[1]
              place == Province(a)
          IN /\ form'.city = (IF place # "" THEN place ELSE form.city)
             /\ form'.country = (IF a.country # "" THEN a.country ELSE form.country)
             /\ \A k \in FormKeys \ LocationKeys : form'[k] = form[k]]_vars

\* a response with only a country arrived after the user typed a city
C13_Witness ==
  /\ ev.op = "GeocodeResponse"
  /\ Province(ev.data[1]) = "" /\ ev.data[1].country = "Turkey"
  /\ form.city = "Bursa" /\ form.country = "Turkey"
  /\ geo[ev.id].form.city = ""

Superseded == {g \in DOMAIN geo : geo[g].status \in {"aborted", "cancelled"}}

\* C14: once a click has cancelled a pending geocode request, the location
\* error is null for as long as the new request is outstanding; the
\* cancellation itself is never reported.
C14_CancelIsNoError ==
  (Superseded # {} /\ geo[Len(geo)].status = "pending") => locationError = Null

\* the cancelled request's rejection has been handled, the new one is pending
C14_Witness ==
  /\ ev.op = "GeocodeAborted"
  /\ geo[1].status = "cancelled"
  /\ geo[2].status = "pending"
  /\ locationError = Null

\* the timers a geocode run has pending
Scheduled(g) == {i \in DOMAIN timers : timers[i].geo = g}

\* an applied response whose automatic request has not been sent yet
Waiting(g) == geo[g].outcome = "applied" /\ geo[g].autos = 0

\* C15: a geocode run whose response was applied has exactly one automatic
\* request, pending or sent, and whenever one is still pending a state follows
\* in which every applied response has had its request sent; a run that
\* failed, returned an empty address or was cancelled has none.
C15_OneAutoFetchPerAppliedGeocode ==
  /\ [](\A g \in DOMAIN geo :
          geo[g].autos + Cardinality(Scheduled(g))
            = IF geo[g].outcome = "applied" THEN 1 ELSE 0)
  /\ (\E g \in DOMAIN geo : Waiting(g)) ~> (\A g \in DOMAIN geo : ~Waiting(g))

\* the first point's request was sent after a second point's lookup failed
C15_Witness ==
  /\ Len(geo) = 2
  /\ geo[1].outcome = "applied" /\ geo[1].autos = 1
  /\ geo[2].outcome = "error" /\ geo[2].autos = 0
  /\ ev.op = "AutoFetch"

\* C16: every rule-based request in flight, from a submit or from the
\* automatic fetch, carries a non-empty city and a non-empty country.
C16_RequestsHaveLocation ==
  \A r \in rule : r.body.city # "" /\ r.body.country # ""

\* C17: a geocode request that fails other than by cancellation sets the
\* "could not reach" error, which is not the empty-address message, and
\* leaves the form, the result list and the pending timers as they were.
C17_GeocodeFailureOnlySetsError ==
  [][ev'.op = "GeocodeError"
       => /\ locationError' = Some(LocationUnreachableMessage)
          /\ LocationUnreachableMessage # LocationEmptyMessage
          /\ form' = form
          /\ results' = results
          /\ timers' = timers]_vars

\* a lookup failed while a list was displayed
C17_Witness ==
  /\ ev.op = "GeocodeError"
  /\ locationError = Some(LocationUnreachableMessage)
  /\ results # <<>>
  /\ form.city # ""

\* C18: a field edit sets the one form key its control names and leaves the
\* six other keys, the result list, the stored AI result and every loading
\* and error flag as they were.
C18_EditChangesOneKey ==
  [][ev'.op = "handleChange"
       => LET name == ev'.data[1][1]
              value == ev'.data[1][2]
          IN /\ DOMAIN form' = FormKeys
             /\ form'[name] = value
             /\ \A k \in FormKeys \ {name} : form'[k] = form[k]
             /\ UNCHANGED <<results, aiResult, loading, error, aiLoading,
                            aiError, locationLoading, locationError>>]_vars

\* the sun exposure was edited in a form a geocode had filled in
C18_Witness ==
  /\ ev.op = "handleChange" /\ ev.data[1][1] = "sun_exposure"
  /\ form.sun_exposure = "shade"
  /\ form.city = "Izmir" /\ form.country = "Turkey"

\* the displayed plants that have the AI pick's id
Matches ==
  {i \in DOMAIN results : results[i].plant_id = aiResult[1].ai_best[1].plant_id}

\* C19: when the AI panel is shown its label names a displayed plant whose
\* plant_id is ai_best.plant_id, and is "Bilinmeyen bitki" exactly when no
\* displayed plant has that id; no panel is shown when the stored AI result
\* or its ai_best is null.
C19_AIBestLabel ==
  /\ AIPanelShown
       => /\ Matches # {} => \E i \in Matches : AIBestLabel = PlantLabel(results[i])
          /\ Matches = {} <=> AIBestLabel = UnknownPlantLabel
  /\ (aiResult = Null \/ aiResult[1].ai_best = Null) => ~AIPanelShown

\* a rule-based response that settled after the AI response replaced the
\* list the AI picked from
C19_Witness ==
  /\ AIPanelShown
  /\ aiResult[1].ai_best[1].plant_id = 1
  /\ Find(aiResult[1].rule_based_results, 1) # Null
  /\ results = <<Plant(2)>>
  /\ AIBestLabel = UnknownPlantLabel

\* C20: an automatic request is dispatched only for the point selected last.
C20_NoAutoFetchForSupersededPoint ==
  [][ev'.op = "AutoFetch" => Head(timers).geo = Len(geo)]_vars

\* C21: the loading flag is true in every state where a rule-based request,
\* manual or automatic, is in flight.
C21_LoadingWhileInFlight ==
  rule # {} => loading

\* the geocode request of the point selected last is in flight
CurrentInFlight ==
  geo # <<>> /\ geo[Len(geo)].status = "pending"

\* C22: the location-loading flag is true in every state where the geocode
\* request of the currently selected point is in flight, also when that
\* request was started by a click that cancelled an earlier one.
C22_ResolvingWhileInFlight ==
  CurrentInFlight => locationLoading

\* C23: whenever the stored AI result is non-null, the displayed list is the
\* rule_based_results of that AI response.
C23_ListIsFromAIResponse ==
  aiResult # Null => results = aiResult[1].rule_based_results

\* C24: when no rule-based request is in flight, the rule-based error message
\* is shown exactly when the rule-based request that settled last failed.
C24_ErrorIffLastFailed ==
  rule = {} => (error # Null <=> lastRule = "failed")

\* the form keys a geocode never writes
SiteKeys == FormKeys \ LocationKeys

\* C25: the automatic request carries, for the five site-condition keys, the
\* values the form holds when the request is dispatched.
C25_AutoBodyHasCurrentSiteKeys ==
  [][ev'.op = "AutoFetch"
       => \A r \in Issued : \A k \in SiteKeys : r.body[k] = form[k]]_vars

\* no request is outstanding, no promise reaction and no timer is pending
Quiet ==
  /\ rule = {} /\ ai = {} /\ timers = <<>>
  /\ \A g \in DOMAIN geo : geo[g].status \in {"settled", "cancelled"}

\* C26: when every outstanding request settles, every pending timer fires and
\* the user stops acting, the application reaches and stays in a state where
\* loading, aiLoading and locationLoading are all false.
C26_FlagsSettle ==
  <>[](~loading /\ ~aiLoading /\ ~locationLoading)

\* a geocode, its automatic request and an AI request have all settled and
\* the three flags are down
C26_Witness ==
  /\ Quiet
  /\ geo # <<>> /\ nRule >= 1 /\ nAI >= 1
  /\ ~loading /\ ~aiLoading /\ ~locationLoading

====
